---------------------------- MODULE Spec2Model ----------------------------
(***************************************************************************)
(* Model of rust-code-analysis.py: the pipeline                            *)
(*   create_json_files -> find_files -> analyze_files                      *)
(* where analyze_files extracts every file with analyze_file, folds the    *)
(* per-file results into one mapping with append_metrics and then writes   *)
(* the report rust-code-analysis.tab.                                      *)
(*                                                                         *)
(* A Python dict is modelled as the sequence of its <<key, value>> pairs   *)
(* in insertion order (the iteration order of dict.items()).  A JSON value *)
(* is a record [kind, val]: kind "num" (val = <<x>>), "list" (val = the    *)
(* elements) or "dict" (val = the pairs).  Numbers printed with the format *)
(* .1f are modelled as their number of tenths (1.6 is 16).                 *)
(***************************************************************************)
EXTENDS Integers, Sequences, FiniteSets, TLC

VARIABLES
    pc,         \* position of the run
    dirExists,  \* whether rust-code-analysis/src exists on disk
    nFiles,     \* len(files): the paths find_files returned
    i,          \* number of files analyze_files has extracted and merged
    doc,        \* analyze_file's d, the document parsed last: "none" before the
                \* first json.load, then whether it has the key "spaces"
    fileRet,    \* analyze_file's local ret for the file being read
    ret,        \* analyze_files' ret: the aggregated mapping
    datas,      \* history: the result analyze_file returned for each file
    created,    \* history: keys of ret in the order ret first got them
    merges,     \* number of "metrics" dicts merged so far (input budget)
    report,     \* lines of rust-code-analysis.tab on disk
    opened,     \* whether this run has opened the report for writing
    k,          \* number of (group, name) pairs the reporter has handled
    err         \* the unhandled exception that ended the run, "" if none

vars == <<pc, dirExists, nFiles, i, doc, fileRet, ret, datas, created, merges,
          report, opened, k, err>>

---------------------------------------------------------------------------
(* Bounds of the model *)

MaxFiles == 2

MaxMerges == 2

MaxStatVal == 5

MaxStatLen == 5

Groups == {"loc", "nom"}

Names == {"avg", "total"}

Values == {1}

ListVals == {<< >>, <<2, 1>>}

---------------------------------------------------------------------------
(* JSON values and ordered dicts *)

Num(x) == [kind |-> "num", val |-> <<x>>]

List(s) == [kind |-> "list", val |-> s]

Dict(d) == [kind |-> "dict", val |-> d]

EmptyDict == << >>

Keys(d) == [j \in 1 .. Len(d) |-> d[j][1]]

HasKey(d, key) == \E j \in 1 .. Len(d) : d[j][1] = key

IndexOf(d, key) == CHOOSE j \in 1 .. Len(d) : d[j][1] = key

Get(d, key) == d[IndexOf(d, key)][2]

\* d[key] = v: a new key goes last, an existing key keeps its place; with
\* PutFront a new key goes first
PutFront(d, key, v) ==
    IF HasKey(d, key)
    THEN [d EXCEPT ![IndexOf(d, key)] = <<key, v>>]
    ELSE << <<key, v>> >> \o d

Put(d, key, v) ==
    IF HasKey(d, key)
    THEN [d EXCEPT ![IndexOf(d, key)] = <<key, v>>]
    ELSE Append(d, <<key, v>>)

\* all ordered dicts with at most n keys from K and values from V
RECURSIVE OrderedDicts(_, _, _)
OrderedDicts(K, V, n) ==
    IF n = 0 THEN {EmptyDict}
    ELSE LET smaller == OrderedDicts(K, V, n - 1)
             longest == {d \in smaller : Len(d) = n - 1}
         IN  smaller \cup
             {Append(t[1], <<t[2], t[3]>>) :
                 t \in {u \in longest \X K \X V : ~HasKey(u[1], u[2])}}

---------------------------------------------------------------------------
(* append_metrics *)

\* lines 25-28: a list is concatenated, any other value is appended;
\* AppendValueReplace assigns instead
AppendValueReplace(series, v2) ==
    IF v2.kind = "list" THEN v2.val ELSE <<v2.val[1]>>

AppendValue(series, v2) ==
    IF v2.kind = "list" THEN series \o v2.val ELSE Append(series, v2.val[1])

\* lines 22-28: the inner loop over v1.items(), on ret[k1]
RECURSIVE MergeNames(_, _)
MergeNames(dst, items) ==
    IF items = << >> THEN dst
    ELSE LET k2 == Head(items)[1]
             v2 == Head(items)[2]
             d1 == IF HasKey(dst, k2) THEN dst ELSE Put(dst, k2, List(<< >>))
             d2 == Put(d1, k2, List(AppendValue(Get(d1, k2).val, v2)))
         IN  MergeNames(d2, Tail(items))

\* lines 17-28: the outer loop over metrics.items(), on ret
RECURSIVE MergeGroups(_, _)
MergeGroups(dst, items) ==
    IF items = << >> THEN dst
    ELSE LET k1 == Head(items)[1]
             v1 == Head(items)[2]
         IN  IF v1.kind # "dict"
             THEN MergeGroups(dst, Tail(items))
             ELSE LET d1 == IF HasKey(dst, k1) THEN dst
                            ELSE Put(dst, k1, Dict(EmptyDict))
                      d2 == Put(d1, k1, Dict(MergeNames(Get(d1, k1).val, v1.val)))
                  IN  MergeGroups(d2, Tail(items))

append_metrics(dst, metrics) == MergeGroups(dst, metrics)

---------------------------------------------------------------------------
(* The inputs: what a scope's "metrics" field may hold *)

MetricValues == {Num(x) : x \in Values} \cup {List(s) : s \in ListVals}

NotADict == Num(0)

\* a group's value: not a dict, or a dict of at most one name
GroupValues ==
    {NotADict} \cup {Dict(d) : d \in OrderedDicts(Names, MetricValues, 1)}

\* a scope's metrics: a dict of at most one group
MetricsSet == OrderedDicts(Groups, GroupValues, 1)

---------------------------------------------------------------------------
(* The statistics of one series, as line 57-64 compute and print them *)

RECURSIVE Insert(_, _)
Insert(x, s) ==
    IF s = << >> THEN <<x>>
    ELSE IF x <= Head(s) THEN <<x>> \o s
    ELSE <<Head(s)>> \o Insert(x, Tail(s))

\* sorted(v2); Unsorted is the series left as accumulated
Unsorted(s) == s

RECURSIVE Sorted(_)
Sorted(s) == IF s = << >> THEN << >> ELSE Insert(Head(s), Sorted(Tail(s)))

RECURSIVE Sum(_)
Sum(s) == IF s = << >> THEN 0 ELSE Head(s) + Sum(Tail(s))

RECURSIVE SumSq(_)
SumSq(s) == IF s = << >> THEN 0 ELSE Head(s) * Head(s) + SumSq(Tail(s))

\* min(v2), max(v2): one pass over the list
RECURSIVE Min(_)
Min(s) ==
    IF Len(s) = 1 THEN s[1]
    ELSE LET m == Min(Tail(s)) IN IF Head(s) <= m THEN Head(s) ELSE m

RECURSIVE Max(_)
Max(s) ==
    IF Len(s) = 1 THEN s[1]
    ELSE LET m == Max(Tail(s)) IN IF Head(s) >= m THEN Head(s) ELSE m

\* format(num / den, ".1f") in tenths, for num >= 0 and den > 0: the nearest
\* tenth, a tie going to the even one.  (A tie is a value x.x5; with fewer
\* than 20 observations it is x.25 or x.75, which a float holds exactly.)
Format1(num, den) ==
    LET q == (10 * num) \div den
        r == (10 * num) % den
    IN  IF 2 * r < den THEN q
        ELSE IF 2 * r > den THEN q + 1
        ELSE IF q % 2 = 0 THEN q ELSE q + 1

\* statistics.median(v2): sorts, takes data[n // 2] or the mean of the two
\* middle elements (0-based data[i - 1], data[i] with i = n // 2)
Median(s) ==
    LET data == Sorted(s)
        n == Len(data)
    IN  IF n % 2 = 1 THEN Format1(data[(n \div 2) + 1], 1)
        ELSE Format1(data[n \div 2] + data[(n \div 2) + 1], 2)

\* statistics.mean(v2): the exact sum over the count
Mean(s) == Format1(Sum(s), Len(s))

\* The square root of num / den in tenths: the largest t whose lower rounding
\* boundary t - 0.05 is at most the root
RoundedRoot(num, den, bound) ==
    LET ok == {t \in 0 .. bound : t = 0 \/ (2 * t - 1) * (2 * t - 1) * den <= 400 * num}
    IN  CHOOSE t \in ok : \A u \in ok : u <= t

\* statistics.stdev(v2) for two or more observations: the square root of
\* sum((x - mean)^2) / (n - 1) = (n * sum(x^2) - sum(x)^2) / (n * (n - 1));
\* StdevPopulation divides by n, as statistics.pstdev does
StdevPopulation(s) ==
    LET n == Len(s)
    IN  RoundedRoot(n * SumSq(s) - Sum(s) * Sum(s), n * n, 10 * (Max(s) - Min(s)))

Stdev(s) ==
    LET n == Len(s)
    IN  RoundedRoot(n * SumSq(s) - Sum(s) * Sum(s), n * (n - 1),
                    10 * (Max(s) - Min(s)))

Header ==
    "#group         \tmethod                   \tminimum\tmedian\tmean\tstd_dev\tmaximum\tcount"

\* line 64: the data row of one (group, name) pair
Row(k1, k2, series) ==
    LET v2 == Sorted(series)
    IN  [group |-> k1, name |-> k2,
         minimum |-> Format1(Min(v2), 1), median |-> Median(v2),
         mean |-> Mean(v2), std_dev |-> Stdev(v2),
         maximum |-> Format1(Max(v2), 1), count |-> Len(v2)]

\* lines 57-63: the exception the computation raises for a series, "" if none
RowError(series) ==
    IF Len(series) = 0 THEN "ValueError"            \* min() of an empty list
    ELSE IF Len(series) = 1 THEN "StatisticsError"  \* stdev() of one value
    ELSE ""

\* lines 55-56: the (group, name, series) triples in the order the two loops
\* over ret.items() and v1.items() visit them
RECURSIVE PairsOf(_, _)
PairsOf(k1, items) ==
    IF items = << >> THEN << >>
    ELSE <<[group |-> k1, name |-> Head(items)[1], series |-> Head(items)[2].val]>>
         \o PairsOf(k1, Tail(items))

RECURSIVE Pairs(_)
Pairs(d) ==
    IF d = << >> THEN << >>
    ELSE PairsOf(Head(d)[1], Head(d)[2].val) \o Pairs(Tail(d))

---------------------------------------------------------------------------
(* History: the keys of a mapping in the order append_metrics created them *)

InLog(log, e) == \E j \in 1 .. Len(log) : log[j] = e

\* line 23-24: ret[k1][k2] = [] for each name ret[k1] lacks
RECURSIVE LogNames(_, _, _)
LogNames(log, k1, names) ==
    IF names = << >> THEN log
    ELSE LET e == <<k1, Head(names)>>
         IN  LogNames(IF InLog(log, e) THEN log ELSE Append(log, e), k1, Tail(names))

\* line 20-21: ret[k1] = {} for each dict-valued group ret lacks; a group is
\* logged as <<k1, "">>
RECURSIVE LogGroups(_, _)
LogGroups(log, items) ==
    IF items = << >> THEN log
    ELSE LET k1 == Head(items)[1]
             v1 == Head(items)[2]
             e  == <<k1, "">>
         IN  IF v1.kind # "dict" THEN LogGroups(log, Tail(items))
             ELSE LogGroups(LogNames(IF InLog(log, e) THEN log ELSE Append(log, e),
                                     k1, Keys(v1.val)),
                            Tail(items))

---------------------------------------------------------------------------
(* The run *)

Init ==
    /\ pc = "create"
    /\ dirExists \in BOOLEAN
    /\ nFiles = 0
    /\ i = 0
    /\ doc = "none"
    /\ fileRet = EmptyDict
    /\ ret = EmptyDict
    /\ datas = << >>
    /\ created = << >>
    /\ merges = 0
    /\ report = <<"stale">>
    /\ opened = FALSE
    /\ k = 0
    /\ err = ""

Fail(e) == pc' = "failed" /\ err' = e

\* lines 66-75: the directory is created if missing, removed, and the tool is
\* run: it is not installed (subprocess.call raises), or it runs and leaves
\* the directory behind or not; its exit code is not looked at
CreateJsonFiles ==
    /\ pc = "create"
    /\ \E tool \in {"not installed", "output", "no output"} :
          /\ dirExists' = (tool = "output")
          /\ IF tool = "not installed"
             THEN Fail("FileNotFoundError")
             ELSE pc' = "find" /\ err' = err
    /\ UNCHANGED <<nFiles, i, doc, fileRet, ret, datas, created, merges, report,
                   opened, k>>

\* lines 9-14: os.walk ignores the error of listing a missing directory, so a
\* missing root yields no path; FindFilesRaises is a walk that raises it
FindFilesRaises ==
    /\ pc = "find"
    /\ IF dirExists
       THEN \E n \in 0 .. MaxFiles : nFiles' = n /\ pc' = "loop" /\ err' = err
       ELSE nFiles' = 0 /\ Fail("FileNotFoundError")
    /\ UNCHANGED <<dirExists, i, doc, fileRet, ret, datas, created, merges, report,
                   opened, k>>

FindFiles ==
    /\ pc = "find"
    /\ IF dirExists
       THEN \E n \in 0 .. MaxFiles : nFiles' = n
       ELSE nFiles' = 0
    /\ pc' = "loop"
    /\ UNCHANGED <<dirExists, i, doc, fileRet, ret, datas, created, merges, report,
                   opened, k, err>>

\* line 52 after line 51: the file's result is merged into ret
Merged(data) ==
    /\ ret' = append_metrics(ret, data)
    /\ datas' = Append(datas, data)
    /\ created' = LogGroups(created, data)
    /\ i' = i + 1
    /\ doc' = doc
    /\ fileRet' = EmptyDict
    /\ pc' = "loop"

\* line 33: json.load raises on a malformed document
AnalyzeFileMalformed ==
    /\ pc = "loop" /\ i < nFiles
    /\ Fail("JSONDecodeError")
    /\ UNCHANGED <<dirExists, nFiles, i, doc, fileRet, ret, datas, created,
                   merges, report, opened, k>>

\* lines 31-33: the file is opened and parsed
AnalyzeFileLoad ==
    /\ pc = "loop" /\ i < nFiles
    /\ doc' \in {"no spaces", "spaces"}
    /\ fileRet' = EmptyDict
    /\ pc' = "loaded"
    /\ UNCHANGED <<dirExists, nFiles, i, ret, datas, created, merges, report,
                   opened, k, err>>

\* lines 34-35, 52: a document without "spaces" returns the empty ret, which
\* analyze_files merges; AnalyzeFileNoSpacesRaises is line 36 reached without
\* the test of line 34
AnalyzeFileNoSpacesRaises ==
    /\ pc = "loaded" /\ doc = "no spaces"
    /\ Fail("KeyError")
    /\ UNCHANGED <<dirExists, nFiles, i, doc, fileRet, ret, datas, created,
                   merges, report, opened, k>>

AnalyzeFileNoSpaces ==
    /\ pc = "loaded" /\ doc = "no spaces"
    /\ Merged(fileRet)
    /\ UNCHANGED <<dirExists, nFiles, merges, report, opened, k, err>>

\* lines 34, 36: a document with "spaces": the loop over d['spaces'] starts
AnalyzeFileSpaces ==
    /\ pc = "loaded" /\ doc = "spaces"
    /\ pc' = "outer"
    /\ UNCHANGED <<dirExists, nFiles, i, doc, fileRet, ret, datas, created,
                   merges, report, opened, k, err>>

\* lines 36-38: the next element of d['spaces'], without or with "spaces"
OuterScope ==
    /\ pc = "outer"
    /\ \E hasSpaces \in BOOLEAN : pc' = IF hasSpaces THEN "inner" ELSE "outer"
    /\ UNCHANGED <<dirExists, nFiles, i, doc, fileRet, ret, datas, created, merges,
                   report, opened, k, err>>

\* lines 39-44: the next element of s1['spaces'] has no "metrics", or one that
\* is not a dict
InnerScopeSkipped ==
    /\ pc = "inner"
    /\ UNCHANGED vars

\* lines 39-45: the next element of s1['spaces'] has a "metrics" dict
InnerScopeMetrics ==
    /\ pc = "inner" /\ merges < MaxMerges
    /\ merges' = merges + 1
    /\ \E metrics \in MetricsSet : fileRet' = append_metrics(fileRet, metrics)
    /\ UNCHANGED <<pc, dirExists, nFiles, i, doc, ret, datas, created, report,
                   opened, k, err>>

\* line 39: s1['spaces'] is exhausted
InnerEnd ==
    /\ pc = "inner"
    /\ pc' = "outer"
    /\ UNCHANGED <<dirExists, nFiles, i, doc, fileRet, ret, datas, created, merges,
                   report, opened, k, err>>

\* lines 36, 46, 52: d['spaces'] is exhausted, analyze_file returns ret and
\* analyze_files merges it
AnalyzeFileReturn ==
    /\ pc = "outer"
    /\ Merged(fileRet)
    /\ UNCHANGED <<dirExists, nFiles, merges, report, opened, k, err>>

\* lines 53-54: after the loop over the files the report is opened for
\* writing, which truncates it, and the header is printed; OpenReportEarly
\* opens it while files remain
OpenReportEarly ==
    /\ pc = "loop" /\ ~opened
    /\ opened' = TRUE
    /\ report' = <<Header>>
    /\ k' = 0
    /\ pc' = IF i = nFiles THEN "rows" ELSE "loop"
    /\ UNCHANGED <<dirExists, nFiles, i, doc, fileRet, ret, datas, created, merges,
                   err>>

OpenReport ==
    /\ pc = "loop" /\ i = nFiles
    /\ opened' = TRUE
    /\ report' = <<Header>>
    /\ k' = 0
    /\ pc' = "rows"
    /\ UNCHANGED <<dirExists, nFiles, i, doc, fileRet, ret, datas, created, merges,
                   err>>

\* lines 55-64: the next (group, name) pair: its statistics are computed and
\* its row is printed, or the computation raises
WriteRow ==
    /\ pc = "rows" /\ k < Len(Pairs(ret))
    /\ LET p == Pairs(ret)[k + 1]
       IN  IF RowError(p.series) # ""
           THEN Fail(RowError(p.series)) /\ UNCHANGED <<report, k>>
           ELSE /\ report' = Append(report, Row(p.group, p.name, p.series))
                /\ k' = k + 1
                /\ UNCHANGED <<pc, err>>
    /\ UNCHANGED <<dirExists, nFiles, i, doc, fileRet, ret, datas, created, merges,
                   opened>>

\* the loops of lines 55-56 are exhausted: the report is closed
CloseReport ==
    /\ pc = "rows" /\ k = Len(Pairs(ret))
    /\ pc' = "done"
    /\ UNCHANGED <<dirExists, nFiles, i, doc, fileRet, ret, datas, created, merges,
                   report, opened, k, err>>

Next ==
    \/ CreateJsonFiles
    \/ FindFiles
    \/ AnalyzeFileMalformed
    \/ AnalyzeFileLoad
    \/ AnalyzeFileNoSpaces
    \/ AnalyzeFileSpaces
    \/ OuterScope
    \/ InnerScopeSkipped
    \/ InnerScopeMetrics
    \/ InnerEnd
    \/ AnalyzeFileReturn
    \/ OpenReport
    \/ WriteRow
    \/ CloseReport

Spec == Init /\ [][Next]_vars

---------------------------------------------------------------------------
(* The reporter on one series: the state after one file whose only metric  *)
(* nom/total is a list of up to MaxStatLen numbers from 1 .. MaxStatVal    *)
(* was extracted and merged                                                *)

StatSeries == UNION {[1 .. l -> 1 .. MaxStatVal] : l \in 0 .. MaxStatLen}

InitStats ==
    \E s \in StatSeries :
        LET data == append_metrics(EmptyDict,
                        << <<"nom", Dict(<< <<"total", List(s)>> >>)>> >>)
        IN  /\ pc = "loop"
            /\ dirExists = TRUE
            /\ nFiles = 1
            /\ i = 1
            /\ doc = "spaces"
            /\ fileRet = EmptyDict
            /\ ret = append_metrics(EmptyDict, data)
            /\ datas = <<data>>
            /\ created = LogGroups(<< >>, data)
            /\ merges = 1
            /\ report = <<"stale">>
            /\ opened = FALSE
            /\ k = 0
            /\ err = ""

NextStats == OpenReport \/ WriteRow \/ CloseReport

SpecStats == InitStats /\ [][NextStats]_vars

---------------------------------------------------------------------------
(* Vocabulary of the properties *)

HasPair(m, g, n) == HasKey(m, g) /\ HasKey(Get(m, g).val, n)

SeriesOf(m, g, n) == IF HasPair(m, g, n) THEN Get(Get(m, g).val, n).val ELSE << >>

Ended == pc \in {"done", "failed"}

\* the data rows of the report this run has written
Rows == IF opened THEN Tail(report) ELSE << >>

RowsFor(g, n) == {j \in 1 .. Len(Rows) : Rows[j].group = g /\ Rows[j].name = n}

Count(s, x) == Cardinality({j \in 1 .. Len(s) : s[j] = x})

SameMultiset(s, t) ==
    /\ Len(s) = Len(t)
    /\ \A j \in 1 .. Len(s) : Count(s, s[j]) = Count(t, s[j])

---------------------------------------------------------------------------
(* C1: for valid inputs (every file parses), when the run has ended every  *)
(* (group, name) pair of any file's extracted metrics has exactly one data *)
(* row in the report.                                                      *)
C1_EveryExtractedPairHasOneRow ==
    (Ended /\ err # "JSONDecodeError") =>
        \A f \in 1 .. Len(datas) : \A g \in Groups : \A n \in Names :
            HasPair(datas[f], g, n) => Cardinality(RowsFor(g, n)) = 1

---------------------------------------------------------------------------
(* The series and the observation count of a pair over a list of results *)
RECURSIVE Concatenated(_, _, _)
Concatenated(ds, g, n) ==
    IF ds = << >> THEN << >>
    ELSE SeriesOf(Head(ds), g, n) \o Concatenated(Tail(ds), g, n)

RECURSIVE TotalCount(_, _, _)
TotalCount(ds, g, n) ==
    IF ds = << >> THEN 0
    ELSE Len(SeriesOf(Head(ds), g, n)) + TotalCount(Tail(ds), g, n)

(* C2: the series the aggregated mapping holds for a pair is the series of *)
(* the merged files for that pair one after the other, so its length is    *)
(* the sum of the files' observation counts: nothing is lost,              *)
(* deduplicated or counted twice.                                          *)
C2_MergedCountIsSum ==
    \A g \in Groups : \A n \in Names :
        /\ Len(SeriesOf(ret, g, n)) = TotalCount(datas, g, n)
        /\ SeriesOf(ret, g, n) = Concatenated(datas, g, n)

C2_Witness ==
    /\ Len(datas) = 2
    /\ \E g \in Groups : \E n \in Names :
          /\ HasPair(datas[1], g, n) /\ HasPair(datas[2], g, n)
          /\ Len(SeriesOf(datas[1], g, n)) = 2
          /\ Len(SeriesOf(datas[2], g, n)) = 1
          /\ Len(SeriesOf(ret, g, n)) = 3

---------------------------------------------------------------------------
(* The pairs of the aggregated mapping with fewer than two observations *)
ShortPairs ==
    {<<g, n>> \in Groups \X Names :
        HasPair(ret, g, n) /\ Len(SeriesOf(ret, g, n)) < 2}

(* C3: when the aggregated mapping the reporter is given holds a series    *)
(* with fewer than two observations, the run ends with the error of the    *)
(* standard-deviation computation, and no row is written for such a        *)
(* series.                                                                 *)
C3_ShortSeriesFailsAtStdev ==
    (Ended /\ opened /\ ShortPairs # {}) =>
        /\ pc = "failed"
        /\ err = "StatisticsError"
        /\ \A p \in ShortPairs : RowsFor(p[1], p[2]) = {}

---------------------------------------------------------------------------
(* C4: the step that handles a document without a top-level "spaces" key   *)
(* raises nothing and adds nothing: the aggregated mapping and the report  *)
(* are unchanged, the file's result is empty, and the run goes on to the   *)
(* next file.                                                              *)
C4_NoSpacesAddsNothing ==
    [][(pc = "loaded" /\ doc = "no spaces") =>
          /\ pc' = "loop" /\ err' = ""
          /\ i' = i + 1
          /\ ret' = ret
          /\ report' = report
          /\ datas' = Append(datas, EmptyDict)]_vars

C4_Witness ==
    /\ pc = "done" /\ doc = "no spaces"
    /\ Len(datas) = 2
    /\ datas[1] # EmptyDict /\ datas[2] = EmptyDict
    /\ ret = datas[1]
    /\ Len(Rows) = 1

---------------------------------------------------------------------------
---------------------------------------------------------------------------
(* The statistics of a series, stated from their definitions *)

\* the p-th element of s in ascending order: the value with fewer than p
\* elements below it and at least p elements not above it
Ascending(s, p) ==
    CHOOSE x \in {s[j] : j \in 1 .. Len(s)} :
        /\ Cardinality({j \in 1 .. Len(s) : s[j] < x}) < p
        /\ Cardinality({j \in 1 .. Len(s) : s[j] <= x}) >= p

\* the sum over all pairs of elements of their squared difference, which is
\* count * (count - 1) times the sample variance
RECURSIVE SquaredDifferences(_)
SquaredDifferences(s) ==
    IF Len(s) < 2 THEN 0
    ELSE LET h == Head(s)
             t == Tail(s)
             f[j \in 0 .. Len(t)] ==
                 IF j = 0 THEN 0 ELSE f[j - 1] + (h - t[j]) * (h - t[j])
         IN  f[Len(t)] + SquaredDifferences(t)

IsRowOf(r, s) ==
    LET n == Len(s)
        total == Sum(s)
        half == n \div 2
    IN  /\ n >= 2
        /\ r.count = n
        /\ r.minimum = 10 * Ascending(s, 1)
        /\ r.maximum = 10 * Ascending(s, n)
        /\ r.median = IF n % 2 = 1 THEN 10 * Ascending(s, half + 1)
                      ELSE 5 * (Ascending(s, half) + Ascending(s, half + 1))
        \* |mean - total / n| <= 0.05, in tenths
        /\ 2 * (10 * total - n * r.mean) <= n
        /\ 2 * (n * r.mean - 10 * total) <= n
        \* (std_dev - 0.05)^2 <= variance <= (std_dev + 0.05)^2, in tenths
        /\ r.std_dev >= 0
        /\ \/ r.std_dev = 0
           \/ (2 * r.std_dev - 1) * (2 * r.std_dev - 1) * n * (n - 1)
                  <= 400 * SquaredDifferences(s)
        /\ 400 * SquaredDifferences(s)
               <= (2 * r.std_dev + 1) * (2 * r.std_dev + 1) * n * (n - 1)

OneToFive == <<1, 2, 3, 4, 5>>

RowOneToFive(r) ==
    /\ r.minimum = 10 /\ r.median = 30 /\ r.mean = 30
    /\ r.std_dev = 16 /\ r.maximum = 50 /\ r.count = 5

(* C6: every row the reporter has written for a series (of two or more     *)
(* observations) holds: minimum = the first and maximum = the last element *)
(* of the series in ascending order, median = its middle element or the    *)
(* average of its two middle elements, mean = the arithmetic mean,         *)
(* std_dev = the sample standard deviation (denominator count - 1), each   *)
(* to the nearest tenth, and count = the number of observations; for the   *)
(* series 1, 2, 3, 4, 5 the row is 1.0, 3.0, 3.0, 1.6, 5.0, 5.             *)
C6_RowStatistics ==
    \A j \in 1 .. Len(Rows) :
        LET s == Pairs(ret)[j].series
        IN  /\ Rows[j].group = Pairs(ret)[j].group
            /\ Rows[j].name = Pairs(ret)[j].name
            /\ IsRowOf(Rows[j], s)
            /\ SameMultiset(s, OneToFive) => RowOneToFive(Rows[j])

C6_Witness ==
    /\ pc = "done"
    /\ SeriesOf(ret, "nom", "total") = <<4, 1, 5, 3, 2>>
    /\ Len(Rows) = 1
    /\ RowOneToFive(Rows[1])

---------------------------------------------------------------------------
(* The order in which the aggregated mapping got its keys *)

\* the names logged for group g, in the order logged
NamesCreated(g) ==
    SelectSeq(created, LAMBDA e : e[1] = g /\ e[2] # "")

\* the pairs in creation order: the logged groups in turn, each with its names
RECURSIVE CreationOrder(_)
CreationOrder(log) ==
    IF log = << >> THEN << >>
    ELSE IF Head(log)[2] = "" THEN NamesCreated(Head(log)[1]) \o CreationOrder(Tail(log))
    ELSE CreationOrder(Tail(log))

(* C7: the report is the header line followed by the rows of the (group,   *)
(* name) pairs in the order of creation: groups in the order in which the  *)
(* aggregated mapping first got each group, and within a group the names   *)
(* in the order in which the group first got each name.  While the         *)
(* reporter runs the rows written so far are the first k of that order;    *)
(* when it is done, all of it.                                             *)
C7_RowsInCreationOrder ==
    opened =>
        /\ report[1] = Header
        /\ Len(Rows) = k
        /\ k <= Len(CreationOrder(created))
        /\ \A j \in 1 .. k :
              <<Rows[j].group, Rows[j].name>> = CreationOrder(created)[j]
        /\ pc = "done" => k = Len(CreationOrder(created))

\* two files, the first with group "nom" and the second with group "loc":
\* the rows are in that order, which is not the order of the keys
C7_Witness ==
    /\ pc = "done"
    /\ Len(datas) = 2
    /\ Keys(datas[1]) = <<"nom">> /\ Keys(datas[2]) = <<"loc">>
    /\ Len(Rows) = 2
    /\ Rows[1].group = "nom" /\ Rows[2].group = "loc"

---------------------------------------------------------------------------
(* C8: every series of the aggregated mapping and of the mapping of the    *)
(* file being extracted has at least one observation.                      *)
C8_NoEmptySeries ==
    \A g \in Groups : \A n \in Names :
        /\ HasPair(ret, g, n) => Len(SeriesOf(ret, g, n)) >= 1
        /\ HasPair(fileRet, g, n) => Len(SeriesOf(fileRet, g, n)) >= 1

---------------------------------------------------------------------------
(* The aggregated mapping of the same per-file results in another order *)

RECURSIVE Aggregate(_)
Aggregate(ds) ==
    IF ds = << >> THEN EmptyDict
    ELSE append_metrics(Aggregate(SubSeq(ds, 1, Len(ds) - 1)), ds[Len(ds)])

Orders(n) == {f \in [1 .. n -> 1 .. n] : \A a, b \in 1 .. n : f[a] = f[b] => a = b}

Reordered(f) == Aggregate([j \in 1 .. Len(datas) |-> datas[f[j]]])

RowSet(m) ==
    {Row(p.group, p.name, p.series) :
        p \in {Pairs(m)[j] : j \in 1 .. Len(Pairs(m))}}

SameStatistics(g, n, other) ==
    LET mine == SeriesOf(ret, g, n)
        theirs == SeriesOf(other, g, n)
    IN  /\ HasPair(ret, g, n) <=> HasPair(other, g, n)
        /\ SameMultiset(mine, theirs)
        /\ (Len(mine) >= 2 /\ mine # theirs) =>
              /\ Row(g, n, mine) = Row(g, n, theirs)
              /\ \A j \in RowsFor(g, n) : Rows[j] = Row(g, n, theirs)

(* C9: once every file is merged, merging the same per-file results in any *)
(* other order gives each (group, name) pair the same multiset of          *)
(* observations and the same statistics; a finished report holds the same  *)
(* set of rows as the report of any other order would.                     *)
C9_OrderIrrelevant ==
    (i = nFiles /\ Len(datas) = nFiles /\ pc \in {"loop", "rows", "done", "failed"}) =>
        \A f \in Orders(nFiles) :
            LET other == Reordered(f)
            IN  /\ \A g \in Groups : \A n \in Names : SameStatistics(g, n, other)
                /\ pc = "done" => {Rows[j] : j \in 1 .. Len(Rows)} = RowSet(other)

\* two files with a common pair whose series differs between the two
\* orders, and a finished report
C9_Witness ==
    /\ pc = "done" /\ Len(datas) = 2 /\ Len(Rows) = 1
    /\ \E g \in Groups : \E n \in Names :
          /\ HasPair(datas[1], g, n) /\ HasPair(datas[2], g, n)
          /\ SeriesOf(ret, g, n) # SeriesOf(Aggregate(<<datas[2], datas[1]>>), g, n)

---------------------------------------------------------------------------
(* C10: the report is opened only after every file was extracted and       *)
(* merged; until then it holds what the previous run left, so a run that   *)
(* ends in a file's parse error leaves it unopened and unchanged.          *)
C10_ReportOpenedAfterExtraction ==
    /\ opened => (i = nFiles /\ pc \in {"rows", "done", "failed"})
    /\ ~opened => report = <<"stale">>
    /\ err = "JSONDecodeError" => (~opened /\ report = <<"stale">>)

\* the second file is malformed, after the first was merged
C10_Witness ==
    /\ pc = "failed" /\ err = "JSONDecodeError"
    /\ i = 1 /\ ret # EmptyDict
    /\ ~opened /\ report = <<"stale">>

=============================================================================
